---- MODULE Spec2Model ----
(***************************************************************************)
(* Model of scripts/generate_release_pages.py: the release catalog         *)
(* generator (fetch -> classify -> render -> write).                       *)
(*                                                                         *)
(* A Python str is a sequence of one-character strings, so that prefix,    *)
(* suffix, slicing, stripping, regular-expression matching and ordering    *)
(* are computed character by character as the interpreter computes them.   *)
(* A Python dict is a sequence of key/value records in insertion order.    *)
(* A missing key, None and "" are all the empty sequence where the code    *)
(* reads the key through `x or y` or tests it for truth.  Where the value  *)
(* read through .get(key, "") is given to str(), as the values of the      *)
(* release matrix are, a JSON null is kept apart (JsonNull): str() makes   *)
(* the text "None" of it.                                                  *)
(***************************************************************************)
EXTENDS Integers, Sequences, FiniteSets, TLC

VARIABLES
    pc,             \* position of main: the step it takes next, or done/aborted
    failed_at,      \* the step whose exception aborted the run ("" if none)
    dir_ready,      \* output_dir.mkdir has returned
    page,           \* fetch_releases: local `page`
    requested,      \* page numbers of the API requests sent so far, in order
    fetched,        \* the chunks the API returned so far, in order
    releases,       \* fetch_releases: local `releases` (raw, drafts included)
    raw_releases,   \* main: the list fetch_releases returned
    classified,     \* main: `releases`, the ClassifiedRelease list built so far
    index_html,     \* state of <output-dir>/index.html in this run
    releases_json,  \* state of <output-dir>/releases.json in this run
    in_release,     \* classification harness: the raw release given
    in_fetch,       \* classification harness: what the matrix request does
    out_release,    \* classification harness: classify_release's result
    stats,          \* render_html: local `stats` (<< >> before it is computed)
    cards,          \* the page in a browser: its release cards, in document order
    search_value,   \* the page: searchInput.value
    release_display, \* the page: style.display of each release card
    device_display, \* the page: style.display of each device card, per release
    status          \* the page: textContent of #search-status

vars == << pc, failed_at, dir_ready, page, requested, fetched, releases,
           raw_releases, classified, index_html, releases_json,
           in_release, in_fetch, out_release,
           stats, cards, search_value, release_display, device_display, status >>

-----------------------------------------------------------------------------
(* Strings *)

\* Code points of the characters the model's strings are made of.
ord ==
    (" " :> 32) @@ ("\"" :> 34) @@ ("#" :> 35) @@ ("&" :> 38) @@ ("'" :> 39) @@
    ("-" :> 45) @@ ("." :> 46) @@
    ("0" :> 48) @@ ("1" :> 49) @@ ("2" :> 50) @@ ("5" :> 53) @@ ("6" :> 54) @@
    ("7" :> 55) @@ (";" :> 59) @@ ("<" :> 60) @@ (">" :> 62) @@
    ("A" :> 65) @@ ("B" :> 66) @@ ("D" :> 68) @@ ("E" :> 69) @@ ("F" :> 70) @@
    ("H" :> 72) @@ ("I" :> 73) @@ ("L" :> 76) @@ ("M" :> 77) @@ ("N" :> 78) @@
    ("O" :> 79) @@ ("R" :> 82) @@ ("S" :> 83) @@ ("T" :> 84) @@ ("U" :> 85) @@ ("V" :> 86) @@
    ("X" :> 88) @@ ("_" :> 95) @@
    ("a" :> 97) @@ ("b" :> 98) @@ ("c" :> 99) @@ ("d" :> 100) @@ ("e" :> 101) @@
    ("f" :> 102) @@ ("g" :> 103) @@ ("h" :> 104) @@ ("i" :> 105) @@ ("j" :> 106) @@
    ("k" :> 107) @@ ("l" :> 108) @@ ("m" :> 109) @@ ("n" :> 110) @@ ("o" :> 111) @@
    ("p" :> 112) @@ ("q" :> 113) @@ ("r" :> 114) @@ ("s" :> 115) @@ ("t" :> 116) @@ ("u" :> 117) @@
    ("v" :> 118) @@ ("w" :> 119) @@ ("x" :> 120) @@ ("y" :> 121) @@ ("z" :> 122)

\* str.isdigit on one character (re's \d restricted to the model's alphabet).
IsDigit(c) == ord[c] >= 48 /\ ord[c] <= 57

\* str.isspace on one character.
IsSpace(c) == c = " "

\* a < b on str: lexicographic by code point, a proper prefix being smaller.
RECURSIVE StrLess(_, _)
StrLess(a, b) ==
    IF b = << >> THEN FALSE
    ELSE IF a = << >> THEN TRUE
    ELSE IF ord[Head(a)] < ord[Head(b)] THEN TRUE
    ELSE IF ord[Head(a)] > ord[Head(b)] THEN FALSE
    ELSE StrLess(Tail(a), Tail(b))

StrLeq(a, b) == a = b \/ StrLess(a, b)

\* s.startswith(p)
StartsWith(s, p) == Len(s) >= Len(p) /\ SubSeq(s, 1, Len(p)) = p

\* s.endswith(p)
EndsWith(s, p) ==
    Len(s) >= Len(p) /\ SubSeq(s, Len(s) - Len(p) + 1, Len(s)) = p

\* s[a:-b] for a, b > 0: the characters after the first a and before the last b.
Slice(s, a, b) == SubSeq(s, a + 1, Len(s) - b)

RECURSIVE LStrip(_)
LStrip(s) == IF s # << >> /\ IsSpace(Head(s)) THEN LStrip(Tail(s)) ELSE s

RECURSIVE RStrip(_)
RStrip(s) ==
    IF s # << >> /\ IsSpace(s[Len(s)]) THEN RStrip(SubSeq(s, 1, Len(s) - 1)) ELSE s

\* s.strip()
Strip(s) == RStrip(LStrip(s))

\* One or more characters, all digits: a whole match of \d+.
AllDigits(s) == s # << >> /\ \A i \in 1..Len(s) : IsDigit(s[i])

\* The character of a code point.
chr(n) == CHOOSE c \in DOMAIN ord : ord[c] = n

\* s.lower() (Python) and s.toLowerCase() (JavaScript): A-Z become a-z.
lower(s) ==
    [i \in DOMAIN s |->
        IF ord[s[i]] >= 65 /\ ord[s[i]] <= 90 THEN chr(ord[s[i]] + 32) ELSE s[i]]

\* " ".join(tokens)
RECURSIVE JoinSpace(_)
JoinSpace(tokens) ==
    IF tokens = << >> THEN << >>
    ELSE IF Len(tokens) = 1 THEN tokens[1]
    ELSE tokens[1] \o <<" ">> \o JoinSpace(Tail(tokens))

\* s.includes(q) (JavaScript): q is a substring of s.
includes(s, q) ==
    \E i \in 0..(Len(s) - Len(q)) : SubSeq(s, i + 1, i + Len(q)) = q

\* What html.escape puts for one character (quote=True).
EscapeChar(c) ==
    CASE c = "&"  -> <<"&","a","m","p",";">>
      [] c = "<"  -> <<"&","l","t",";">>
      [] c = ">"  -> <<"&","g","t",";">>
      [] c = "\"" -> <<"&","q","u","o","t",";">>
      [] c = "'"  -> <<"&","#","x","2","7",";">>
      [] OTHER    -> <<c>>

\* The concatenation of a list of lists, halves first.
RECURSIVE Chain(_)
Chain(lists) ==
    IF Len(lists) = 0 THEN << >>
    ELSE IF Len(lists) = 1 THEN lists[1]
    ELSE LET mid == Len(lists) \div 2
         IN  Chain(SubSeq(lists, 1, mid)) \o Chain(SubSeq(lists, mid + 1, Len(lists)))

\* html.escape(s)
html_escape(s) == Chain([i \in DOMAIN s |-> EscapeChar(s[i])])

\* The character references the page's attributes can hold.
CharRefs ==
    { [ref |-> <<"&","a","m","p",";">>,         char |-> "&"],
      [ref |-> <<"&","l","t",";">>,             char |-> "<"],
      [ref |-> <<"&","g","t",";">>,             char |-> ">"],
      [ref |-> <<"&","q","u","o","t",";">>,     char |-> "\""],
      [ref |-> <<"&","#","x","2","7",";">>,     char |-> "'"] }

\* The character references that start at position i of the text.
RefsAt(text, i) ==
    {r \in CharRefs : i + Len(r.ref) - 1 <= Len(text)
                      /\ SubSeq(text, i, i + Len(r.ref) - 1) = r.ref}

\* The value the browser gives an attribute written as name="text": the text
\* ends at the first double quote, and its character references are decoded
\* (a reference starts at "&" and has no "&" after that, so none starts
\* inside another).
AttrValue(text) ==
    LET quotes == {i \in DOMAIN text : text[i] = "\""}
        last   == IF quotes = {} THEN Len(text)
                  ELSE (CHOOSE i \in quotes : \A j \in quotes : i <= j) - 1
        inside(i) == \E j \in 1..(i - 1) : \E r \in RefsAt(text, j) : j + Len(r.ref) > i
    IN  Chain([i \in 1..last |->
            IF RefsAt(text, i) # {} THEN << (CHOOSE r \in RefsAt(text, i) : TRUE).char >>
            ELSE IF inside(i) THEN << >>
            ELSE << text[i] >>])

-----------------------------------------------------------------------------
(* String literals of the source *)

S_firmware_all    == <<"f","i","r","m","w","a","r","e","-","a","l","l","-">>
S_firmware_bundle == <<"f","i","r","m","w","a","r","e","-","b","u","n","d","l","e","-">>
S_firmware        == <<"f","i","r","m","w","a","r","e","-">>
S_zip             == <<".","z","i","p">>
S_tar_gz          == <<".","t","a","r",".","g","z">>
S_SHA256SUMS      == <<"S","H","A","2","5","6","S","U","M","S",".","t","x","t">>
S_FILES           == <<"F","I","L","E","S",".","t","x","t">>
S_BUILD_INFO      == <<"B","U","I","L","D","_","I","N","F","O",".","j","s","o","n">>
S_RELEASE_MATRIX  ==
    <<"R","E","L","E","A","S","E","_","M","A","T","R","I","X",".","j","s","o","n">>
S_unknown_device  == <<"u","n","k","n","o","w","n","-","d","e","v","i","c","e">>
S_unknown         == <<"u","n","k","n","o","w","n">>
S_unknown_build_list ==
    <<"u","n","k","n","o","w","n","-","b","u","i","l","d","-","l","i","s","t">>
S_yaml            == <<".","y","a","m","l">>
S_build_list      == <<"b","u","i","l","d","_","l","i","s","t">>
S_main            == <<"m","a","i","n">>
S_variant_        == <<"v","a","r","i","a","n","t"," ">>
S_archive         == <<"a","r","c","h","i","v","e">>
S_Untitled_release ==
    <<"U","n","t","i","t","l","e","d"," ","r","e","l","e","a","s","e">>

-----------------------------------------------------------------------------
(* Sorting: list.sort / sorted with a key function.  Items are decorated as *)
(* [k |-> <<rank, string>>, v |-> element]; the sort is stable.             *)

KeyLess(k1, k2) == k1[1] < k2[1] \/ (k1[1] = k2[1] /\ StrLess(k1[2], k2[2]))

\* x goes after every element whose key is not greater than its own.
InsertAsc(acc, x) ==
    LET n == Cardinality({i \in DOMAIN acc : ~KeyLess(x.k, acc[i].k)})
    IN  SubSeq(acc, 1, n) \o <<x>> \o SubSeq(acc, n + 1, Len(acc))

\* reverse=True: x goes after every element whose key is not smaller.
InsertDesc(acc, x) ==
    LET n == Cardinality({i \in DOMAIN acc : ~KeyLess(acc[i].k, x.k)})
    IN  SubSeq(acc, 1, n) \o <<x>> \o SubSeq(acc, n + 1, Len(acc))

RECURSIVE SortAscFrom(_, _)
SortAscFrom(acc, items) ==
    IF items = << >> THEN acc
    ELSE SortAscFrom(InsertAsc(acc, Head(items)), Tail(items))

RECURSIVE SortDescFrom(_, _)
SortDescFrom(acc, items) ==
    IF items = << >> THEN acc
    ELSE SortDescFrom(InsertDesc(acc, Head(items)), Tail(items))

Undecorate(items) == [i \in DOMAIN items |-> items[i].v]

-----------------------------------------------------------------------------
(* Name parsers *)

\* The first asset, in list order, whose name has the prefix and the suffix;
\* 0 when there is none.
FirstNamed(assets, prefix, suffix) ==
    LET hits == {i \in DOMAIN assets :
                    StartsWith(assets[i].name, prefix) /\ EndsWith(assets[i].name, suffix)}
    IN  IF hits = {} THEN 0 ELSE CHOOSE i \in hits : \A j \in hits : i <= j

\* A mutated parse_version_label: one loop over the assets, the first name of
\* either form deciding.
parse_version_label_one_loop(assets) ==
    LET a == FirstNamed(assets, S_firmware_all, S_zip)
        b == FirstNamed(assets, S_firmware_bundle, S_tar_gz)
    IN  IF a # 0 /\ (b = 0 \/ a < b)
        THEN Slice(assets[a].name, Len(S_firmware_all), Len(S_zip))
        ELSE IF b # 0 THEN Slice(assets[b].name, Len(S_firmware_bundle), Len(S_tar_gz))
        ELSE << >>

parse_version_label(assets) ==
    LET a == FirstNamed(assets, S_firmware_all, S_zip)
        b == FirstNamed(assets, S_firmware_bundle, S_tar_gz)
    IN  IF a # 0 THEN Slice(assets[a].name, Len(S_firmware_all), Len(S_zip))
        ELSE IF b # 0 THEN Slice(assets[b].name, Len(S_firmware_bundle), Len(S_tar_gz))
        ELSE << >>

\* re.match of  -<version>(?:-(\d+))?\.zip$  against `rest`, the version
\* escaped and so matched literally: [ok, suffix], suffix the text of group
\* (\d+), empty when the group took no part.
TailMatch(rest, version_label) ==
    LET pre == <<"-">> \o version_label
        mid == SubSeq(rest, Len(pre) + 1, Len(rest) - Len(S_zip))
        ok  == /\ Len(rest) >= Len(pre) + Len(S_zip)
               /\ StartsWith(rest, pre)
               /\ EndsWith(rest, S_zip)
               /\ (mid = << >> \/ (Head(mid) = "-" /\ AllDigits(Tail(mid))))
    IN  [ok |-> ok, suffix |-> IF ok /\ mid # << >> THEN Tail(mid) ELSE << >>]

\* The lengths group (.+) can have in a whole match of
\* ^firmware-(.+)-<version>(?:-(\d+))?\.zip$ against asset_name.
SlugLengths(asset_name, version_label) ==
    IF ~StartsWith(asset_name, S_firmware) THEN {}
    ELSE {n \in 1..(Len(asset_name) - Len(S_firmware)) :
            TailMatch(SubSeq(asset_name, Len(S_firmware) + n + 1, Len(asset_name)),
                      version_label).ok}

\* A mutated derive_device_slug: (.+?) in place of (.+), the shortest slug.
derive_device_slug_lazy(asset_name, version_label) ==
    LET lens     == SlugLengths(asset_name, version_label)
        fallback == Slice(asset_name, Len(S_firmware), Len(S_zip))
    IN  IF version_label # << >> /\ lens # {}
        THEN SubSeq(asset_name, Len(S_firmware) + 1,
                    Len(S_firmware) + (CHOOSE n \in lens : \A m \in lens : n <= m))
        ELSE IF fallback # << >> THEN fallback ELSE S_unknown_device

\* (.+) is greedy: of the slugs a whole match allows, the longest.
derive_device_slug(asset_name, version_label) ==
    LET lens     == SlugLengths(asset_name, version_label)
        fallback == Slice(asset_name, Len(S_firmware), Len(S_zip))
    IN  IF version_label # << >> /\ lens # {}
        THEN SubSeq(asset_name, Len(S_firmware) + 1,
                    Len(S_firmware) + (CHOOSE n \in lens : \A m \in lens : n >= m))
        ELSE IF fallback # << >> THEN fallback ELSE S_unknown_device

derive_variant_label(asset_name, device_slug, version_label) ==
    LET head == S_firmware \o device_slug
        m    == TailMatch(SubSeq(asset_name, Len(head) + 1, Len(asset_name)),
                          version_label)
    IN  IF version_label # << >> /\ StartsWith(asset_name, head) /\ m.ok
        THEN IF m.suffix = << >> THEN S_main ELSE S_variant_ \o m.suffix
        ELSE S_archive

-----------------------------------------------------------------------------
(* Source labels *)

source_sort_key(source_name) ==
    IF source_name = S_unknown_build_list THEN <<1, source_name>>
    ELSE <<0, source_name>>

normalize_source_name(raw) ==
    LET value == Strip(raw)
    IN  IF value = << >> \/ value = S_unknown THEN S_unknown_build_list
        ELSE IF value = S_unknown_build_list THEN value
        ELSE IF EndsWith(value, S_yaml) THEN value
        ELSE IF StartsWith(value, S_build_list) THEN value \o S_yaml
        ELSE value

\* A JSON null among the values of the release matrix: no str equals it.
JsonNull == << "null" >>

S_None == <<"N","o","n","e">>

\* str(value) of a value of the release matrix: a str is itself, None is
\* the text "None".
str(value) == IF value = JsonNull THEN S_None ELSE value

\* meta.get(key, "") for the three keys, in the order the loop reads them.
MetaValues(meta) == <<meta.build_list_file, meta.build_list_slug, meta.source_slug>>

\* matrix_by_archive.get(asset_name, {}) when the name has no entry.
NoMeta == [build_list_file |-> << >>, build_list_slug |-> << >>, source_slug |-> << >>]

\* A mutated pick_source_name: the keys read in the opposite order.
pick_source_name_reversed(meta) ==
    LET vals == [i \in 1..3 |-> Strip(str(MetaValues(meta)[4 - i]))]
        good == {i \in 1..3 : vals[i] # << >> /\ vals[i] \notin {S_unknown, S_unknown_build_list}}
    IN  IF good = {} THEN S_unknown_build_list
        ELSE normalize_source_name(vals[CHOOSE i \in good : \A j \in good : i <= j])

pick_source_name(meta) ==
    LET vals == [i \in 1..3 |-> Strip(str(MetaValues(meta)[i]))]
        good == {i \in 1..3 : vals[i] # << >> /\ vals[i] \notin {S_unknown, S_unknown_build_list}}
    IN  IF good = {} THEN S_unknown_build_list
        ELSE normalize_source_name(vals[CHOOSE i \in good : \A j \in good : i <= j])

-----------------------------------------------------------------------------
(* HTTP requests *)

\* What api_get_json(url, token) can do: return the parsed JSON body,
\*   [kind |-> "json", payload |-> ...],
\* or raise, [kind |-> "raise", exc |-> class name].  ExceptionBases gives,
\* for each exception class urlopen, resp.read, bytes.decode and json.loads
\* raise, the classes an `except` clause matches it by.
ExceptionBases ==
    [ HTTPError            |-> {"HTTPError", "URLError", "OSError"},
      URLError             |-> {"URLError", "OSError"},
      TimeoutError         |-> {"TimeoutError", "OSError"},
      JSONDecodeError      |-> {"JSONDecodeError", "ValueError"},
      UnicodeDecodeError   |-> {"UnicodeDecodeError", "UnicodeError", "ValueError"},
      ConnectionResetError |-> {"ConnectionResetError", "ConnectionError", "OSError"},
      RemoteDisconnected   |-> {"RemoteDisconnected", "ConnectionResetError",
                                "BadStatusLine", "HTTPException",
                                "ConnectionError", "OSError"},
      IncompleteRead       |-> {"IncompleteRead", "HTTPException"} ]

ExceptionClasses == DOMAIN ExceptionBases

Raises(exc) == [kind |-> "raise", exc |-> exc]
Returns(payload) == [kind |-> "json", payload |-> payload]

-----------------------------------------------------------------------------
(* Matrix loader *)

\* except (HTTPError, URLError, TimeoutError, ValueError)
MatrixHandled == {"HTTPError", "URLError", "TimeoutError", "ValueError"}

\* The loop over payload: a later item of the same archive_name replaces the
\* earlier one.  The mapping is a function from archive names to metadata.
RECURSIVE MatrixFrom(_, _)
MatrixFrom(by_archive, items) ==
    IF items = << >> THEN by_archive
    ELSE LET item == Head(items)
             archive_name == Strip(str(item.archive_name))
         IN  IF ~item.is_dict \/ archive_name = << >>
             THEN MatrixFrom(by_archive, Tail(items))
             ELSE MatrixFrom(
                    (archive_name :>
                        [build_list_file |-> Strip(str(item.build_list_file)),
                         build_list_slug |-> Strip(str(item.build_list_slug)),
                         source_slug     |-> Strip(str(item.source_slug))])
                    @@ by_archive,
                    Tail(items))

\* matrix_asset is << >> (None) or <<asset>>.  The result is
\* [raised |-> FALSE, value |-> mapping] or [raised |-> TRUE, exc |-> class].
load_release_matrix(matrix_asset, outcome) ==
    IF matrix_asset = << >> THEN [raised |-> FALSE, value |-> << >>]
    ELSE IF matrix_asset[1].browser_download_url = << >>
    THEN [raised |-> FALSE, value |-> << >>]
    ELSE IF outcome.kind = "raise"
    THEN IF ExceptionBases[outcome.exc] \cap MatrixHandled # {}
         THEN [raised |-> FALSE, value |-> << >>]
         ELSE [raised |-> TRUE, exc |-> outcome.exc]
    ELSE IF ~outcome.payload.is_list THEN [raised |-> FALSE, value |-> << >>]
    ELSE [raised |-> FALSE, value |-> MatrixFrom(<< >>, outcome.payload.items)]

\* matrix_by_archive.get(asset_name, {})
MatrixGet(matrix_by_archive, asset_name) ==
    IF asset_name \in DOMAIN matrix_by_archive THEN matrix_by_archive[asset_name]
    ELSE NoMeta

-----------------------------------------------------------------------------
(* Release classifier *)

\* A mutated Role: the per-device test made before the aggregate-zip test.
Role_per_device_first(name) ==
    IF StartsWith(name, S_firmware) /\ EndsWith(name, S_zip) THEN "per_device"
    ELSE IF StartsWith(name, S_firmware_bundle) /\ EndsWith(name, S_tar_gz)
    THEN "firmware_bundle"
    ELSE IF name = S_SHA256SUMS THEN "checksums"
    ELSE IF name = S_FILES THEN "files_manifest"
    ELSE IF name = S_BUILD_INFO THEN "build_info"
    ELSE IF name = S_RELEASE_MATRIX THEN "release_matrix_asset"
    ELSE "other"

\* The if/elif chain of the partition loop, in its order.
Role(name) ==
    IF StartsWith(name, S_firmware_all) /\ EndsWith(name, S_zip) THEN "firmware_all"
    ELSE IF StartsWith(name, S_firmware_bundle) /\ EndsWith(name, S_tar_gz)
    THEN "firmware_bundle"
    ELSE IF name = S_SHA256SUMS THEN "checksums"
    ELSE IF name = S_FILES THEN "files_manifest"
    ELSE IF name = S_BUILD_INFO THEN "build_info"
    ELSE IF name = S_RELEASE_MATRIX THEN "release_matrix_asset"
    ELSE IF StartsWith(name, S_firmware) /\ EndsWith(name, S_zip) THEN "per_device"
    ELSE "other"

SpecialRoles == {"firmware_all", "firmware_bundle", "checksums", "files_manifest",
                 "build_info", "release_matrix_asset"}

\* A slot variable after the loop: None (<< >>) or the last asset of the role.
Slot(assets, role) ==
    LET hits == {i \in DOMAIN assets : Role(assets[i].name) = role}
    IN  IF hits = {} THEN << >>
        ELSE <<assets[CHOOSE i \in hits : \A j \in hits : i >= j]>>

\* A list the loop appends to: the assets of the role, in list order.
Collected(assets, role) ==
    LET Has(a) == Role(a.name) = role IN SelectSeq(assets, Has)

\* device_groups.setdefault(device_slug, {}).setdefault(source_name, []).append(row)
AddRow(device_groups, device_slug, source_name, row) ==
    LET di == {i \in DOMAIN device_groups : device_groups[i].slug = device_slug}
    IN  IF di = {}
        THEN Append(device_groups,
                    [slug |-> device_slug,
                     sources |-> << [source |-> source_name, rows |-> <<row>>] >>])
        ELSE LET i  == CHOOSE x \in di : TRUE
                 sg == device_groups[i].sources
                 si == {j \in DOMAIN sg : sg[j].source = source_name}
             IN  IF si = {}
                 THEN [device_groups EXCEPT ![i].sources =
                          Append(sg, [source |-> source_name, rows |-> <<row>>])]
                 ELSE LET j == CHOOSE x \in si : TRUE
                      IN  [device_groups EXCEPT ![i].sources[j].rows = Append(@, row)]

\* The loop over per_device_assets.
RECURSIVE GroupRows(_, _, _, _)
GroupRows(device_groups, per_device_assets, version_label, matrix_by_archive) ==
    IF per_device_assets = << >> THEN device_groups
    ELSE LET asset         == Head(per_device_assets)
             asset_name    == asset.name
             device_slug   == derive_device_slug(asset_name, version_label)
             variant_label == derive_variant_label(asset_name, device_slug, version_label)
             source_name   == pick_source_name(MatrixGet(matrix_by_archive, asset_name))
             row == [variant_label |-> variant_label,
                     asset_name    |-> asset_name,
                     download_url  |-> asset.browser_download_url]
         IN  GroupRows(AddRow(device_groups, device_slug, source_name, row),
                       Tail(per_device_assets), version_label, matrix_by_archive)

\* rows.sort(key=lambda item: item["asset_name"])
SortRows(rows) ==
    Undecorate(SortAscFrom(<< >>,
        [i \in DOMAIN rows |-> [k |-> <<0, rows[i].asset_name>>, v |-> rows[i]]]))

\* A mutated SortSources: plain lexicographic order, the sentinel not forced last.
SortSources_plain(source_groups) ==
    Undecorate(SortAscFrom(<< >>,
        [j \in DOMAIN source_groups |->
            [k |-> <<0, source_groups[j].source>>,
             v |-> [source |-> source_groups[j].source,
                    rows   |-> SortRows(source_groups[j].rows)]]]))

\* sorted(device_groups[device_slug], key=source_sort_key), each rows list sorted.
SortSources(source_groups) ==
    Undecorate(SortAscFrom(<< >>,
        [j \in DOMAIN source_groups |->
            [k |-> source_sort_key(source_groups[j].source),
             v |-> [source |-> source_groups[j].source,
                    rows   |-> SortRows(source_groups[j].rows)]]]))

\* dict(sorted(device_groups.items(), key=lambda item: item[0]))
SortDevices(device_groups) ==
    Undecorate(SortAscFrom(<< >>,
        [i \in DOMAIN device_groups |->
            [k |-> <<0, device_groups[i].slug>>, v |-> device_groups[i]]]))

\* sorted(other_assets, key=lambda item: item.get("name", ""))
SortAssets(assets) ==
    Undecorate(SortAscFrom(<< >>,
        [i \in DOMAIN assets |-> [k |-> <<0, assets[i].name>>, v |-> assets[i]]]))

\* unique_sources after the loop over device_groups.items()
UniqueSources(device_groups) ==
    UNION {{device_groups[i].sources[j].source : j \in DOMAIN device_groups[i].sources} :
            i \in DOMAIN device_groups}

\* The per-device numbers of sources, summed.
RECURSIVE SumSourceCounts(_)
SumSourceCounts(device_groups) ==
    IF device_groups = << >> THEN 0
    ELSE Len(Head(device_groups).sources) + SumSourceCounts(Tail(device_groups))

\* A mutated SourcesTotal: the labels counted once per device.
SourcesTotal_per_device(device_groups) == SumSourceCounts(device_groups)

\* len(unique_sources)
SourcesTotal(device_groups) == Cardinality(UniqueSources(device_groups))

\* classify_release(raw_release, token), `outcome` being what the request for
\* the matrix asset does if it is made.  The result is
\* [raised |-> FALSE, value |-> ClassifiedRelease] or [raised |-> TRUE, exc].
\* raw_release.get("name") or raw_release.get("tag_name") or "Untitled release"
release_name_of(raw_release) ==
    IF raw_release.name # << >> THEN raw_release.name
    ELSE IF raw_release.tag_name # << >> THEN raw_release.tag_name
    ELSE S_Untitled_release

\* What the loop over device_groups.items() appends to search_tokens for one
\* device: the slug, then per source its label and, per row, the asset name
\* and the variant label.
DeviceSearchTokens(group) ==
    <<lower(group.slug)>> \o
    Chain([j \in DOMAIN group.sources |->
            <<lower(group.sources[j].source)>> \o
            Chain([r \in DOMAIN group.sources[j].rows |->
                    << lower(group.sources[j].rows[r].asset_name),
                       lower(group.sources[j].rows[r].variant_label) >>])])

\* search_tokens of classify_release, the devices in the order of insertion.
ReleaseSearchTokens(raw_release, version_label, device_groups) ==
    << lower(release_name_of(raw_release)), lower(raw_release.tag_name),
       lower(version_label) >> \o
    Chain([i \in DOMAIN device_groups |-> DeviceSearchTokens(device_groups[i])])

\* " ".join(token for token in search_tokens if token)
SearchBlob(search_tokens) ==
    JoinSpace(SelectSeq(search_tokens, LAMBDA token : token # << >>))

\* The display fields (URL, pre-release flag, publish time, size text) are
\* left out.
classify_release(raw_release, outcome) ==
    LET assets        == raw_release.assets
        version_label == parse_version_label(assets)
        release_matrix_asset == Slot(assets, "release_matrix_asset")
        loaded        == load_release_matrix(release_matrix_asset, outcome)
        grouped       == GroupRows(<< >>, Collected(assets, "per_device"),
                                   version_label, loaded.value)
        device_groups == [i \in DOMAIN grouped |->
                            [slug    |-> grouped[i].slug,
                             sources |-> SortSources(grouped[i].sources)]]
    IN  IF loaded.raised THEN [raised |-> TRUE, exc |-> loaded.exc]
        ELSE [raised |-> FALSE,
              value |->
                [name           |-> release_name_of(raw_release),
                 tag_name       |-> raw_release.tag_name,
                 assets_total   |-> Len(assets),
                 devices_total  |-> Len(device_groups),
                 sources_total  |-> SourcesTotal(device_groups),
                 version_label  |-> version_label,
                 firmware_all   |-> Slot(assets, "firmware_all"),
                 firmware_bundle |-> Slot(assets, "firmware_bundle"),
                 checksums      |-> Slot(assets, "checksums"),
                 files_manifest |-> Slot(assets, "files_manifest"),
                 build_info     |-> Slot(assets, "build_info"),
                 release_matrix_asset |-> release_matrix_asset,
                 device_groups  |-> SortDevices(device_groups),
                 other_assets   |-> SortAssets(Collected(assets, "other")),
                 search_blob    |-> SearchBlob(ReleaseSearchTokens(
                                        raw_release, version_label, device_groups))]]

-----------------------------------------------------------------------------
(* Catalog aggregator: fetch_releases *)

\* per_page=100 in the request URL and the `len(chunk) < 100` test.
PerPage == 100

\* not rel.get("draft", False): the flag is "true", "false" or "absent".
IsVisible(rel) == rel.draft # "true"

\* rel.get("published_at") or rel.get("created_at") or ""
PublishKey(rel) ==
    IF rel.published_at # << >> THEN rel.published_at
    ELSE IF rel.created_at # << >> THEN rel.created_at
    ELSE << >>

\* A mutated SortReleases: ascending, reverse=True forgotten.
SortReleases_ascending(visible) ==
    Undecorate(SortAscFrom(<< >>,
        [i \in DOMAIN visible |-> [k |-> <<0, PublishKey(visible[i])>>, v |-> visible[i]]]))

\* visible.sort(key=..., reverse=True)
SortReleases(visible) ==
    Undecorate(SortDescFrom(<< >>,
        [i \in DOMAIN visible |-> [k |-> <<0, PublishKey(visible[i])>>, v |-> visible[i]]]))

\* The two statements after the loop: filter the drafts out, sort the rest.
VisibleReleases(all) == SortReleases(SelectSeq(all, IsVisible))

\* A mutated loop exit: the page is tested after the drafts are dropped.
IsLastPage_visible(chunk) == Len(SelectSeq(chunk, IsVisible)) < PerPage

\* `if not chunk: break` and `if len(chunk) < 100: break`
IsLastPage(chunk) == chunk = << >> \/ Len(chunk) < PerPage

-----------------------------------------------------------------------------
(* Inputs: what the hosting API can answer *)

MaxPages == 3    \* pages requested in one run
MaxShort == 2    \* records in a page that is not full

Asset(name, url) == [name |-> name, browser_download_url |-> url]

FwAll(v)           == S_firmware_all \o v \o S_zip
FwBundle(v)        == S_firmware_bundle \o v \o S_tar_gz
FwDevice(d, v)     == S_firmware \o d \o <<"-">> \o v \o S_zip
FwVariant(d, v, n) == S_firmware \o d \o <<"-">> \o v \o <<"-">> \o n \o S_zip
FwPlain(d)         == S_firmware \o d \o S_zip

\* A record of the release list that has no "name" (or an empty one).
Release(tag, draft, published_at, created_at, assets) ==
    [name |-> << >>, tag_name |-> tag, draft |-> draft,
     published_at |-> published_at, created_at |-> created_at, assets |-> assets]

\* A published record that has a name.
NamedRelease(name, tag, assets) ==
    [name |-> name, tag_name |-> tag, draft |-> "false",
     published_at |-> << >>, created_at |-> << >>, assets |-> assets]

MatrixItem(archive_name, f, s, src) ==
    [is_dict |-> TRUE, archive_name |-> archive_name,
     build_list_file |-> f, build_list_slug |-> s, source_slug |-> src]

\* A list entry that is not a JSON object.
NotADict ==
    [is_dict |-> FALSE, archive_name |-> << >>,
     build_list_file |-> << >>, build_list_slug |-> << >>, source_slug |-> << >>]

JsonList(items) == [is_list |-> TRUE, items |-> items]
JsonOther       == [is_list |-> FALSE, items |-> << >>]

\* The records of the pages that are not full.
PageReleases ==
    { Release(<<"a">>, "true",   <<"2">>, <<"1">>, << >>),
      Release(<<"b">>, "false",  <<"2">>, <<"1">>, << >>),
      Release(<<"c">>, "absent", << >>, <<"1","0">>,
              << Asset(S_RELEASE_MATRIX, <<"u","1">>),
                 Asset(FwPlain(<<"a">>), <<"u","2">>) >>),
      Release(<<"d">>, "false",  << >>, << >>, << >>),
      Release(<<"e">>, "false",  <<"2">>, << >>,
              << Asset(FwAll(<<"1">>), <<"u","1">>),
                 Asset(FwDevice(<<"a">>, <<"1">>), <<"u","2">>) >>) }

RECURSIVE SeqsUpTo(_, _)
SeqsUpTo(S, n) ==
    IF n = 0 THEN {<< >>}
    ELSE LET shorter == SeqsUpTo(S, n - 1)
         IN  shorter \cup {Append(q, x) : q \in {r \in shorter : Len(r) = n - 1}, x \in S}

\* Full pages: all drafts, or drafts except records 50 and 100.
FullPage(kind) ==
    [i \in 1..PerPage |->
        IF kind = "mixed" /\ i = 50
        THEN Release(<<"m">>, "false", <<"5">>, <<"1">>, << >>)
        ELSE IF kind = "mixed" /\ i = PerPage
        THEN Release(<<"n">>, "absent", << >>, <<"2">>, << >>)
        ELSE Release(<<"f">>, "true", <<"1">>, <<"1">>, << >>)]

Pages == SeqsUpTo(PageReleases, MaxShort) \cup {FullPage("drafts"), FullPage("mixed")}

\* What the request of one page of the release list can do.
PageOutcomes == {Returns(chunk) : chunk \in Pages} \cup {Raises("URLError")}

\* What the request of a release-matrix asset can do, in a run of main.
RunMatrixOutcomes ==
    {Raises(e) : e \in ExceptionClasses}
    \cup { Returns(JsonOther),
           Returns(JsonList(<< MatrixItem(FwPlain(<<"a">>), S_build_list, << >>, << >>) >>)) }

-----------------------------------------------------------------------------
(* main *)

Abort(step) == pc' = "aborted" /\ failed_at' = step

\* classification harness variables, unused in a run of main
HarnessIdle == UNCHANGED << in_release, in_fetch, out_release >>

\* The page in a browser, not opened in a run of main.
S_Showing_all == << "Showing all releases." >>

NoPage ==
    /\ stats = << >>
    /\ cards = << >>
    /\ search_value = << >>
    /\ release_display = << >>
    /\ device_display = << >>
    /\ status = S_Showing_all

PageIdle ==
    UNCHANGED << stats, cards, search_value, release_display, device_display, status >>

Init ==
    /\ pc = "mkdir"
    /\ failed_at = ""
    /\ dir_ready = FALSE
    /\ page = 1
    /\ requested = << >>
    /\ fetched = << >>
    /\ releases = << >>
    /\ raw_releases = << >>
    /\ classified = << >>
    /\ index_html = "none"
    /\ releases_json = "none"
    /\ in_release = Release(<< >>, "absent", << >>, << >>, << >>)
    /\ in_fetch = Raises("URLError")
    /\ out_release = << >>
    /\ NoPage

\* output_dir.mkdir(parents=True, exist_ok=True)
Mkdir ==
    /\ pc = "mkdir"
    /\ \E ok \in BOOLEAN :
         IF ok THEN dir_ready' = TRUE /\ pc' = "fetch" /\ UNCHANGED failed_at
         ELSE Abort("mkdir") /\ UNCHANGED dir_ready
    /\ UNCHANGED << page, requested, fetched, releases, raw_releases, classified,
                    index_html, releases_json >>
    /\ HarnessIdle
    /\ PageIdle

\* One pass of the loop of fetch_releases; the pass that breaks also filters,
\* sorts and returns to main.
FetchPage ==
    /\ pc = "fetch"
    /\ page <= MaxPages
    /\ requested' = Append(requested, page)
    /\ \E outcome \in PageOutcomes :
         IF outcome.kind = "raise"
         THEN /\ Abort("fetch")
              /\ UNCHANGED << page, fetched, releases, raw_releases >>
         ELSE LET chunk == outcome.payload
                  all   == IF chunk = << >> THEN releases ELSE releases \o chunk
              IN  /\ fetched' = Append(fetched, chunk)
                  /\ releases' = all
                  /\ UNCHANGED failed_at
                  /\ IF IsLastPage(chunk)
                     THEN /\ raw_releases' = VisibleReleases(all)
                          /\ pc' = IF raw_releases' = << >> THEN "render" ELSE "classify"
                          /\ UNCHANGED page
                     ELSE /\ page' = page + 1
                          /\ UNCHANGED << pc, raw_releases >>
    /\ UNCHANGED << dir_ready, classified, index_html, releases_json >>
    /\ HarnessIdle
    /\ PageIdle

\* The request classify_release makes for `item`, if any: only a release with
\* a RELEASE_MATRIX.json asset that has a download URL is asked for.
MakesMatrixRequest(item) ==
    LET m == Slot(item.assets, "release_matrix_asset")
    IN  m # << >> /\ m[1].browser_download_url # << >>

\* One element of [classify_release(item, token) for item in raw_releases].
Classify ==
    /\ pc = "classify"
    /\ LET item == raw_releases[Len(classified) + 1]
       IN  \E outcome \in IF MakesMatrixRequest(item) THEN RunMatrixOutcomes
                          ELSE {Raises("URLError")} :
             LET r == classify_release(item, outcome)
             IN  IF r.raised
                 THEN Abort("classify") /\ UNCHANGED classified
                 ELSE /\ classified' = Append(classified, r.value)
                      /\ pc' = IF Len(classified') = Len(raw_releases)
                               THEN "render" ELSE "classify"
                      /\ UNCHANGED failed_at
    /\ UNCHANGED << dir_ready, page, requested, fetched, releases, raw_releases,
                    index_html, releases_json >>
    /\ HarnessIdle
    /\ PageIdle

\* A mutated RenderHtml: the page is rendered into the file already opened for
\* writing, so a failure of the renderer leaves a truncated index.html.
RenderHtml_into_open_file ==
    /\ pc = "render"
    /\ \E ok \in BOOLEAN :
         IF ok THEN pc' = "write_index" /\ UNCHANGED << failed_at, index_html >>
         ELSE Abort("render") /\ index_html' = "partial"
    /\ UNCHANGED << dir_ready, page, requested, fetched, releases, raw_releases,
                    classified, releases_json >>
    /\ HarnessIdle
    /\ PageIdle

\* render_html(args.repo, releases), evaluated before index.html is opened.
RenderHtml ==
    /\ pc = "render"
    /\ \E ok \in BOOLEAN :
         IF ok THEN pc' = "write_index" /\ UNCHANGED failed_at
         ELSE Abort("render")
    /\ UNCHANGED << dir_ready, page, requested, fetched, releases, raw_releases,
                    classified, index_html, releases_json >>
    /\ HarnessIdle
    /\ PageIdle

\* (output_dir / "index.html").write_text(...): a failure leaves the file
\* untouched (open failed) or truncated and incomplete (write failed).
WriteIndex ==
    /\ pc = "write_index"
    /\ \E result \in {"written", "none", "partial"} :
         /\ index_html' = result
         /\ IF result = "written" THEN pc' = "write_json" /\ UNCHANGED failed_at
            ELSE Abort("write_index")
    /\ UNCHANGED << dir_ready, page, requested, fetched, releases, raw_releases,
                    classified, releases_json >>
    /\ HarnessIdle
    /\ PageIdle

\* (output_dir / "releases.json").write_text(json.dumps(releases, ...), ...)
\* and `return 0`.
WriteJson ==
    /\ pc = "write_json"
    /\ \E result \in {"written", "none", "partial"} :
         /\ releases_json' = result
         /\ IF result = "written" THEN pc' = "done" /\ UNCHANGED failed_at
            ELSE Abort("write_json")
    /\ UNCHANGED << dir_ready, page, requested, fetched, releases, raw_releases,
                    classified, index_html >>
    /\ HarnessIdle
    /\ PageIdle

Next == Mkdir \/ FetchPage \/ Classify \/ RenderHtml \/ WriteIndex \/ WriteJson

Spec == Init /\ [][Next]_vars

-----------------------------------------------------------------------------
(* classify_release on one release: the inputs *)

MaxAssets == 3   \* assets of a release whose names vary freely

U1 == <<"u","1">>
U2 == <<"u","2">>

V1 == <<"1">>
V2 == <<"2">>
DevA  == <<"a">>
DevAB == <<"a","-","b">>
DevB  == <<"b">>

\* Asset names of every role, per-device names whose slug has a hyphen, names
\* that read as a main archive and as a numbered variant, one name under two
\* download URLs, and a matrix asset that has no download URL.
AssetPool ==
    { Asset(FwAll(V1), U1), Asset(FwAll(V2), U1), Asset(FwAll(<< >>), U1),
      Asset(FwBundle(V2), U1),
      Asset(S_SHA256SUMS, U1), Asset(S_FILES, U1), Asset(S_BUILD_INFO, U1),
      Asset(S_RELEASE_MATRIX, << >>),
      Asset(FwDevice(DevA, V1), U1), Asset(FwDevice(DevA, V1), U2),
      Asset(FwVariant(DevA, V1, V1), U1), Asset(FwVariant(DevA, V1, V2), U1),
      Asset(FwDevice(DevAB, V1), U1), Asset(FwVariant(DevAB, V1, V2), U1),
      Asset(FwPlain(<< >>), U1), Asset(<<"x">>, U1) }

NameReleases ==
    {Release(<<"t">>, "false", << >>, << >>, assets) : assets \in SeqsUpTo(AssetPool, MaxAssets)}

\* Releases with a matrix asset that is requested.
MatrixReleases ==
    { Release(<<"t">>, "false", << >>, << >>,
              << Asset(FwAll(V1), U1), Asset(S_RELEASE_MATRIX, U1),
                 Asset(FwDevice(DevB, V1), U1), Asset(FwDevice(DevA, V1), U1),
                 Asset(FwVariant(DevA, V1, V2), U1) >>),
      Release(<<"t">>, "false", << >>, << >>,
              << Asset(S_RELEASE_MATRIX, U1),
                 Asset(FwDevice(DevB, V1), U1), Asset(FwDevice(DevA, V1), U1) >>) }

S_build_list_a == S_build_list \o <<"_","a">>

\* Values of a metadata key of the matrix.
MetaValues1 ==
    { << >>, JsonNull, S_unknown, S_unknown_build_list, S_build_list_a,
      <<"b",".","y","a","m","l">>, <<" ","z","z"," ">> }

\* The values two and three archives are given together.
MetaValues2 == { << >>, JsonNull, S_unknown_build_list, S_build_list_a, <<"z","z">> }

MatrixPayloads ==
    { JsonList(<< MatrixItem(FwDevice(DevA, V1), f, g, h) >>) :
        f \in MetaValues1, g \in MetaValues1, h \in MetaValues1 }
    \cup
    { JsonList(<< MatrixItem(FwDevice(DevA, V1), f1, << >>, << >>),
                  MatrixItem(FwVariant(DevA, V1, V2), << >>, f2, << >>),
                  MatrixItem(FwDevice(DevB, V1), << >>, << >>, f3) >>) :
        f1 \in MetaValues2, f2 \in MetaValues2, f3 \in MetaValues2 }
    \cup
    { JsonOther,
      JsonList(<< >>),
      JsonList(<< NotADict, MatrixItem(FwDevice(DevA, V1), S_build_list_a, << >>, << >>) >>),
      JsonList(<< MatrixItem(<<" ">>, S_build_list_a, << >>, << >>) >>),
      JsonList(<< MatrixItem(JsonNull, S_build_list_a, << >>, << >>) >>),
      JsonList(<< MatrixItem(<<" ">> \o FwDevice(DevA, V1), << >>, <<"z","z">>, << >>) >>),
      JsonList(<< MatrixItem(FwDevice(DevA, V1), S_build_list_a, << >>, << >>),
                  MatrixItem(FwDevice(DevA, V1), << >>, << >>, <<"z","z">>) >>) }

MatrixOutcomes ==
    {Raises(e) : e \in ExceptionClasses} \cup {Returns(p) : p \in MatrixPayloads}

\* Where no request is made, in_fetch is not read.
NoRequest == Raises("URLError")

\* classify_release is given one release and one behaviour of the network.
InitClassify ==
    /\ pc = "classify_one"
    /\ failed_at = ""
    /\ dir_ready = FALSE
    /\ page = 1
    /\ requested = << >>
    /\ fetched = << >>
    /\ releases = << >>
    /\ raw_releases = << >>
    /\ classified = << >>
    /\ index_html = "none"
    /\ releases_json = "none"
    /\ \/ in_release \in NameReleases /\ in_fetch = NoRequest
       \/ in_release \in MatrixReleases /\ in_fetch \in MatrixOutcomes
    /\ out_release = << >>
    /\ NoPage

\* result = classify_release(in_release, token)
ClassifyOne ==
    /\ pc = "classify_one"
    /\ out_release' = << classify_release(in_release, in_fetch) >>
    /\ pc' = "returned"
    /\ UNCHANGED << failed_at, dir_ready, page, requested, fetched, releases,
                    raw_releases, classified, index_html, releases_json,
                    in_release, in_fetch >>
    /\ PageIdle

NextClassify == ClassifyOne

SpecClassify == InitClassify /\ [][NextClassify]_vars

-----------------------------------------------------------------------------
(* Catalog totals and the page: build_stats, render_release_card *)

RECURSIVE SumOf(_)
SumOf(numbers) == IF numbers = << >> THEN 0 ELSE Head(numbers) + SumOf(Tail(numbers))

\* device_names after the loop of build_stats
DeviceNames(rels) ==
    UNION {{rels[i].device_groups[d].slug : d \in DOMAIN rels[i].device_groups} :
            i \in DOMAIN rels}

\* source_names after the loop of build_stats
SourceNames(rels) ==
    UNION {UniqueSources(rels[i].device_groups) : i \in DOMAIN rels}

\* variants_total after the loop of build_stats
VariantsTotal(rels) ==
    SumOf([i \in DOMAIN rels |->
        SumOf([d \in DOMAIN rels[i].device_groups |->
            SumOf([j \in DOMAIN rels[i].device_groups[d].sources |->
                Len(rels[i].device_groups[d].sources[j].rows)])])])

\* A mutated build_stats: the per-release totals of devices and sources summed.
build_stats_summed(rels) ==
    [releases_total |-> Len(rels),
     devices_total  |-> SumOf([i \in DOMAIN rels |-> rels[i].devices_total]),
     sources_total  |-> SumOf([i \in DOMAIN rels |-> rels[i].sources_total]),
     variants_total |-> VariantsTotal(rels)]

\* build_stats(releases)
build_stats(rels) ==
    [releases_total |-> Len(rels),
     devices_total  |-> Cardinality(DeviceNames(rels)),
     sources_total  |-> Cardinality(SourceNames(rels)),
     variants_total |-> VariantsTotal(rels)]

\* search_tokens of one device card: the slug, then per source its label and
\* the asset name of each row.
DeviceCardTokens(group) ==
    <<lower(group.slug)>> \o
    Chain([j \in DOMAIN group.sources |->
            <<lower(group.sources[j].source)>> \o
            [r \in DOMAIN group.sources[j].rows |->
                lower(group.sources[j].rows[r].asset_name)]])

\* What the document has after data-search=" for the escaped blob.
DataSearchText(blob) == html_escape(blob) \o <<"\"", ">">>

\* The cards of one release as the browser holds them: dataset.search of the
\* release card and of each of its .device-card elements, in document order.
render_release_card(release) ==
    [search       |-> AttrValue(DataSearchText(release.search_blob)),
     device_cards |->
        [d \in DOMAIN release.device_groups |->
            AttrValue(DataSearchText(
                JoinSpace(DeviceCardTokens(release.device_groups[d]))))]]

-----------------------------------------------------------------------------
(* The page's script: applyFilter *)

\* const normalize = (value) => value.trim().toLowerCase();
normalize(value) == lower(Strip(value))

\* deviceMatch of one device card
DeviceMatch(query, releaseMatch, deviceSearch) ==
    query = << >> \/ releaseMatch \/ includes(deviceSearch, query)

\* style.display for a card that matches or not
Display(match) == IF match THEN "" ELSE "none"

\* deviceCard.style.display of the device cards of one release card
DeviceDisplays(query, card) ==
    [d \in DOMAIN card.device_cards |->
        Display(DeviceMatch(query, includes(card.search, query), card.device_cards[d]))]

\* matchedDevicesInRelease after the inner forEach
MatchedDevicesInRelease(query, card) ==
    Len(SelectSeq(DeviceDisplays(query, card), LAMBDA x : x = ""))

\* showRelease of one release card
ShowRelease(query, card) ==
    query = << >> \/ includes(card.search, query) \/ MatchedDevicesInRelease(query, card) > 0

\* status.textContent after the loop
StatusText(query, visibleReleases, visibleDevices) ==
    IF query = << >> THEN S_Showing_all
    ELSE << "Matched releases: ", visibleReleases, ", matched devices: ",
            visibleDevices, "." >>

-----------------------------------------------------------------------------
(* The page: inputs *)

MaxCards == 2    \* releases of a catalog that is opened in a browser

\* A release with a name to escape, two devices and a device of two archives;
\* one with a tag in upper case, the same device and a source of its own;
\* one with no tag, no device and a name of quotes and character references.
CatalogReleases ==
    { NamedRelease(<<"R","&","D">>, <<"v","1">>,
          << Asset(FwAll(V1), U1), Asset(FwDevice(DevA, V1), U1),
             Asset(FwVariant(DevA, V1, V2), U1), Asset(FwDevice(DevB, V1), U1) >>),
      NamedRelease(<< >>, <<"T","2">>,
          << Asset(S_RELEASE_MATRIX, U1), Asset(FwAll(V1), U1),
             Asset(FwDevice(DevA, V1), U2) >>),
      NamedRelease(<<"x","\"","<","'",">","&","a","m","p",";">>, << >>, << >>) }

\* What the request of the matrix asset of a catalog release answers.
CatalogMatrix ==
    Returns(JsonList(<< MatrixItem(FwDevice(DevA, V1), S_build_list_a, << >>, << >>) >>))

\* What is typed into the filter: nothing, blanks, upper case, a tag, a
\* variant label, a source, text across two tokens, text no card has, and
\* text that is escaped in the page.
InputValues ==
    { << >>, <<" ">>, <<"A">>, <<" ","V","1"," ">>, S_main, <<"_","a">>,
      <<"z","i","p"," ","f","i","r","m","w","a","r","e">>,
      <<"z","z">>, <<"\"","<">>, <<"&","a","m","p",";">>, <<"b",".","y">> }

-----------------------------------------------------------------------------
(* The page: rendered from a classified catalog, then filtered *)

\* main has fetched and classified a catalog and is about to render it.
InitPage ==
    /\ pc = "render_page"
    /\ failed_at = ""
    /\ dir_ready = TRUE
    /\ page = 1
    /\ requested = << 1 >>
    /\ raw_releases \in SeqsUpTo(CatalogReleases, MaxCards)
    /\ fetched = << raw_releases >>
    /\ releases = raw_releases
    /\ classified =
         [i \in DOMAIN raw_releases |->
            classify_release(raw_releases[i], CatalogMatrix).value]
    /\ index_html = "none"
    /\ releases_json = "none"
    /\ in_release = Release(<< >>, "absent", << >>, << >>, << >>)
    /\ in_fetch = Raises("URLError")
    /\ out_release = << >>
    /\ NoPage

MainIdle ==
    UNCHANGED << failed_at, dir_ready, page, requested, fetched, releases,
                 raw_releases, classified, index_html, releases_json,
                 in_release, in_fetch, out_release >>

\* render_html(repo, releases): the totals, and the cards of the document.
RenderPage ==
    /\ pc = "render_page"
    /\ stats' = << build_stats(classified) >>
    /\ cards' = [i \in DOMAIN classified |-> render_release_card(classified[i])]
    /\ pc' = "load_page"
    /\ UNCHANGED << search_value, release_display, device_display, status >>
    /\ MainIdle

\* The document loaded in a browser, up to the end of its script: no card has
\* a style, the status line has the text of the document, and the script has
\* added its listener without calling applyFilter.  The field has no value
\* attribute: it holds what the browser restored (reload, history) or what
\* was typed before the listener was there, and no input event was handled.
LoadPage ==
    /\ pc = "load_page"
    /\ search_value' \in InputValues
    /\ release_display' = [i \in DOMAIN cards |-> ""]
    /\ device_display' =
         [i \in DOMAIN cards |-> [d \in DOMAIN cards[i].device_cards |-> ""]]
    /\ status' = S_Showing_all
    /\ pc' = "page_loaded"
    /\ UNCHANGED << stats, cards >>
    /\ MainIdle

\* A mutated applyFilter: a card that matches keeps the style it has.
applyFilter_hide_only ==
    /\ pc \in {"page_loaded", "page_filtered"}
    /\ \E value \in InputValues :
         LET query == normalize(value)
         IN  /\ search_value' = value
             /\ device_display' =
                  [i \in DOMAIN cards |->
                     [d \in DOMAIN cards[i].device_cards |->
                        IF DeviceDisplays(query, cards[i])[d] = "none" THEN "none"
                        ELSE device_display[i][d]]]
             /\ release_display' =
                  [i \in DOMAIN cards |->
                     IF ShowRelease(query, cards[i]) THEN release_display[i] ELSE "none"]
             /\ status' =
                  StatusText(query,
                      Len(SelectSeq(cards, LAMBDA card : ShowRelease(query, card))),
                      SumOf([i \in DOMAIN cards |->
                                MatchedDevicesInRelease(query, cards[i])]))
    /\ pc' = "page_filtered"
    /\ UNCHANGED << stats, cards >>
    /\ MainIdle

\* An input event on the filter field: the field has the new value and
\* applyFilter runs to its end.
applyFilter ==
    /\ pc \in {"page_loaded", "page_filtered"}
    /\ \E value \in InputValues :
         LET query == normalize(value)
         IN  /\ search_value' = value
             /\ device_display' = [i \in DOMAIN cards |-> DeviceDisplays(query, cards[i])]
             /\ release_display' =
                  [i \in DOMAIN cards |-> Display(ShowRelease(query, cards[i]))]
             /\ status' =
                  StatusText(query,
                      Len(SelectSeq(cards, LAMBDA card : ShowRelease(query, card))),
                      SumOf([i \in DOMAIN cards |->
                                MatchedDevicesInRelease(query, cards[i])]))
    /\ pc' = "page_filtered"
    /\ UNCHANGED << stats, cards >>
    /\ MainIdle

NextPage == RenderPage \/ LoadPage \/ applyFilter

SpecPage == InitPage /\ [][NextPage]_vars


-----------------------------------------------------------------------------
(* Properties of a run of main (specification Spec) *)

Ended == pc \in {"done", "aborted"}

\* C1 as stated: a run ends with both output files written or with no output
\* file touched, whatever step failed.
C1_BothOrNothing ==
    Ended =>
        \/ index_html = "written" /\ releases_json = "written"
        \/ index_html = "none" /\ releases_json = "none"

\* C1, amended: a run that returns has written both files; a run aborted by
\* mkdir, a page request, a classification or the rendering has touched no
\* output file, and no file is touched before the writing steps; a run aborted
\* while writing index.html leaves it missing or incomplete and releases.json
\* untouched; a run aborted while writing releases.json leaves index.html
\* written and releases.json missing or incomplete.
C1_Outcomes ==
    /\ pc = "done" => index_html = "written" /\ releases_json = "written"
    /\ pc \in {"mkdir", "fetch", "classify", "render", "write_index"} =>
          index_html = "none" /\ releases_json = "none"
    /\ pc = "write_json" => index_html = "written" /\ releases_json = "none"
    /\ pc = "aborted" =>
          /\ failed_at \in {"mkdir", "fetch", "classify", "render"} =>
                index_html = "none" /\ releases_json = "none"
          /\ failed_at = "write_index" =>
                index_html \in {"none", "partial"} /\ releases_json = "none"
          /\ failed_at = "write_json" =>
                index_html = "written" /\ releases_json \in {"none", "partial"}
          /\ failed_at \in {"mkdir", "fetch", "classify", "render",
                            "write_index", "write_json"}

\* The run was aborted by the write of releases.json, after index.html.
C1_Witness ==
    /\ pc = "aborted" /\ failed_at = "write_json"
    /\ index_html = "written" /\ releases_json = "none"
    /\ classified # << >>

\* The fetch loop has returned to main.
FetchReturned == pc \notin {"mkdir", "fetch"} /\ failed_at \notin {"mkdir", "fetch"}

\* C3: the pages are requested in the order 1, 2, 3, ..., each once; every
\* page before the last one received held at least 100 records, drafts
\* counted; the loop goes on exactly while the last page received held at
\* least 100 records, and has stopped once a page held fewer.
C3_PagesInOrder ==
    /\ \A i \in DOMAIN requested : requested[i] = i
    /\ Len(requested) = Len(fetched) + (IF failed_at = "fetch" THEN 1 ELSE 0)
    /\ \A i \in 1..(Len(fetched) - 1) : Len(fetched[i]) >= 100
    /\ pc = "fetch" =>
          /\ page = Len(requested) + 1
          /\ fetched # << >> => Len(fetched[Len(fetched)]) >= 100
    /\ FetchReturned =>
          /\ fetched # << >>
          /\ Len(fetched[Len(fetched)]) < 100
          /\ page = Len(fetched)

\* A full page of drafts was followed by the request of the next page, and
\* the loop stopped at a later page that was not full.
C3_Witness ==
    /\ FetchReturned
    /\ Len(fetched) >= 2
    /\ Len(fetched[1]) = 100
    /\ \A i \in DOMAIN fetched[1] : fetched[1][i].draft = "true"
    /\ requested = <<1, 2>>

RECURSIVE Flatten(_)
Flatten(chunks) == IF chunks = << >> THEN << >> ELSE Head(chunks) \o Flatten(Tail(chunks))

Count(q, x) == Cardinality({i \in DOMAIN q : q[i] = x})
Range(q) == {q[i] : i \in DOMAIN q}

\* published_at, else created_at, else the empty string
C4_Key(rel) ==
    IF rel.published_at # << >> THEN rel.published_at
    ELSE IF rel.created_at # << >> THEN rel.created_at ELSE << >>

\* C4: the list fetch_releases returns holds no draft, holds every record of
\* the fetched pages that is not a draft as many times as the pages do, and
\* is in non-increasing order of the key.
C4_VisibleSorted ==
    FetchReturned =>
        LET got == Flatten(fetched)
        IN  /\ \A i \in DOMAIN raw_releases : raw_releases[i].draft \in {"false", "absent"}
            /\ \A r \in Range(got) \cup Range(raw_releases) :
                  Count(raw_releases, r) = IF r.draft = "true" THEN 0 ELSE Count(got, r)
            /\ \A i, j \in DOMAIN raw_releases :
                  i < j => ~StrLess(C4_Key(raw_releases[i]), C4_Key(raw_releases[j]))

\* Drafts were fetched and dropped; the records kept have three different
\* keys, one of them a created_at standing in for a missing published_at.
C4_Witness ==
    /\ FetchReturned
    /\ \E i \in DOMAIN releases : releases[i].draft = "true"
    /\ \E i \in DOMAIN raw_releases :
          raw_releases[i].published_at = << >> /\ raw_releases[i].created_at # << >>
    /\ Cardinality({C4_Key(raw_releases[i]) : i \in DOMAIN raw_releases}) >= 3

-----------------------------------------------------------------------------
(* Properties of classify_release (specification SpecClassify) *)

Returned == out_release # << >> /\ ~out_release[1].raised
Result   == out_release[1].value
Assets   == in_release.assets

\* The rows of a result, each with the device slug and the source label it
\* is grouped under, in the order of the mapping.
RECURSIVE RowsOfSources(_, _)
RowsOfSources(slug, source_groups) ==
    IF source_groups = << >> THEN << >>
    ELSE [i \in DOMAIN Head(source_groups).rows |->
            [slug |-> slug, source |-> Head(source_groups).source,
             row |-> Head(source_groups).rows[i]]]
         \o RowsOfSources(slug, Tail(source_groups))

RECURSIVE RowsOf(_)
RowsOf(device_groups) ==
    IF device_groups = << >> THEN << >>
    ELSE RowsOfSources(Head(device_groups).slug, Head(device_groups).sources)
         \o RowsOf(Tail(device_groups))

\* C2 as stated: when the matrix asset is requested and the request fails,
\* classify_release returns and every row is under "unknown-build-list".
C2_MatrixFailureTolerated ==
    (out_release # << >> /\ MakesMatrixRequest(in_release) /\ in_fetch.kind = "raise") =>
        /\ ~out_release[1].raised
        /\ \A i \in DOMAIN RowsOf(Result.device_groups) :
              RowsOf(Result.device_groups)[i].source = S_unknown_build_list

\* The first of the three values, taken in the order file, slug, source, that
\* is not in `skipped`, normalized; the sentinel when there is none.
C5_Expected(meta, skipped) ==
    IF meta.build_list_file \notin skipped THEN normalize_source_name(meta.build_list_file)
    ELSE IF meta.build_list_slug \notin skipped THEN normalize_source_name(meta.build_list_slug)
    ELSE IF meta.source_slug \notin skipped THEN normalize_source_name(meta.source_slug)
    ELSE S_unknown_build_list

\* The matrix entry of an asset name, as the loader built it.
C5_Entry(asset_name) ==
    MatrixGet(load_release_matrix(Slot(Assets, "release_matrix_asset"), in_fetch).value,
              asset_name)

C5_LabelsAre(skipped) ==
    Returned =>
        \A i \in DOMAIN RowsOf(Result.device_groups) :
            LET r == RowsOf(Result.device_groups)[i]
            IN  r.source = C5_Expected(C5_Entry(r.row.asset_name), skipped)

\* C5 as stated: the label is the first value that is non-empty and is not
\* the literal "unknown", normalized.
C5_FirstNotUnknown == C5_LabelsAre({<< >>, S_unknown})

\* C5, amended: the label is the first value, in the order build_list_file,
\* build_list_slug, source_slug, that is non-empty and is neither "unknown"
\* nor "unknown-build-list", normalized; the sentinel when no key holds such a
\* value, and for an asset without a matrix entry.
C5_FirstResolvable == C5_LabelsAre({<< >>, S_unknown, S_unknown_build_list})

\* A row whose entry names the sentinel under build_list_file and a build
\* list under a later key is labelled with the build list.
C5_Witness ==
    /\ Returned
    /\ \E i \in DOMAIN RowsOf(Result.device_groups) :
          LET r == RowsOf(Result.device_groups)[i]
              e == C5_Entry(r.row.asset_name)
          IN  /\ e.build_list_file = S_unknown_build_list
              /\ e.build_list_slug = S_unknown
              /\ e.source_slug = S_build_list_a
              /\ r.source = S_build_list_a \o S_yaml

\* C6: device slugs are in strictly increasing order; in each device group
\* the source labels differ pairwise, the sentinel is last when present and
\* the other labels are in increasing order; each row list is in
\* non-decreasing order of asset_name.
C6_Ordered ==
    Returned =>
        LET dg == Result.device_groups
        IN  /\ \A i, j \in DOMAIN dg : i < j => StrLess(dg[i].slug, dg[j].slug)
            /\ \A d \in DOMAIN dg :
                 LET sg == dg[d].sources
                 IN  /\ \A a, b \in DOMAIN sg :
                            a < b => /\ sg[a].source # sg[b].source
                                     /\ sg[a].source # S_unknown_build_list
                                     /\ sg[b].source # S_unknown_build_list =>
                                            StrLess(sg[a].source, sg[b].source)
                     /\ \A x \in DOMAIN sg :
                            \A a, b \in DOMAIN sg[x].rows :
                                a < b => StrLeq(sg[x].rows[a].asset_name,
                                                sg[x].rows[b].asset_name)

\* Two devices, the one listed first grouped second; the other with the
\* sentinel, met first, after a label that is greater in plain string order.
C6_Witness ==
    /\ Returned
    /\ Len(Result.device_groups) = 2
    /\ Collected(Assets, "per_device")[1].name = FwDevice(DevB, V1)
    /\ Result.device_groups[2].slug = DevB
    /\ LET sg == Result.device_groups[1].sources
       IN  /\ Len(sg) = 2
           /\ sg[1].source = <<"z","z">>
           /\ sg[2].source = S_unknown_build_list
           /\ sg[2].rows[1].asset_name = FwDevice(DevA, V1)

IsFirmwareAll(name)    == StartsWith(name, S_firmware_all) /\ EndsWith(name, S_zip)
IsFirmwareBundle(name) == StartsWith(name, S_firmware_bundle) /\ EndsWith(name, S_tar_gz)

\* <v> of firmware-all-<v>.zip and of firmware-bundle-<v>.tar.gz
AllVersion(name)    == SubSeq(name, Len(S_firmware_all) + 1, Len(name) - Len(S_zip))
BundleVersion(name) == SubSeq(name, Len(S_firmware_bundle) + 1, Len(name) - Len(S_tar_gz))

\* C7 as stated: the label is the <v> of every asset named
\* firmware-all-<v>.zip; a bundle name is used only when there is none; the
\* label is empty only when there is neither.
C7_EveryFirmwareAll ==
    Returned =>
        /\ \A i \in DOMAIN Assets :
              IsFirmwareAll(Assets[i].name) =>
                  Result.version_label = AllVersion(Assets[i].name)
        /\ Result.version_label = << >> =>
              \A i \in DOMAIN Assets :
                  ~IsFirmwareAll(Assets[i].name) /\ ~IsFirmwareBundle(Assets[i].name)

\* C7, amended: the label is the <v> of the first asset, in list order, named
\* firmware-all-<v>.zip, wherever it stands among the other assets; without
\* such an asset it is the <w> of the first asset named
\* firmware-bundle-<w>.tar.gz; without either it is empty.  So it is empty
\* only when neither exists or the deciding name embeds an empty version.
C7_FirstFirmwareAll ==
    Returned =>
        LET alls    == {i \in DOMAIN Assets : IsFirmwareAll(Assets[i].name)}
            bundles == {i \in DOMAIN Assets : IsFirmwareBundle(Assets[i].name)}
        IN  /\ \A i \in alls :
                  (\A j \in alls : i <= j) =>
                      Result.version_label = AllVersion(Assets[i].name)
            /\ alls = {} =>
                  \A i \in bundles :
                      (\A j \in bundles : i <= j) =>
                          Result.version_label = BundleVersion(Assets[i].name)
            /\ (alls = {} /\ bundles = {}) => Result.version_label = << >>

\* A bundle stands before the aggregate zip and a per-device archive between
\* them; the label is the one of the aggregate zip.
C7_Witness ==
    /\ Returned
    /\ Len(Assets) = 3
    /\ Assets[1].name = FwBundle(V2)
    /\ Assets[2].name = FwDevice(DevA, V1)
    /\ Assets[3].name = FwAll(V1)
    /\ Result.version_label = V1

\* Device slugs and variant numbers the naming scheme allows.
C8_Slugs   == {DevA, DevB, DevAB, <<"a","-","1">>, <<"a","-","b","-","1">>}
C8_Numbers == {V1, V2, <<"1","2">>}

\* asset_name is firmware-<slug>-<version>.zip or
\* firmware-<slug>-<version>-<digits>.zip for some non-empty slug.
C8_WholeMatch(asset_name, version_label) ==
    \E n \in 1..(Len(asset_name) - Len(S_firmware)) :
        LET head == S_firmware \o SubSeq(asset_name, Len(S_firmware) + 1, Len(S_firmware) + n)
                    \o <<"-">> \o version_label
        IN  /\ StartsWith(asset_name, head)
            /\ \/ asset_name = head \o S_zip
               \/ \E k \in 1..(Len(asset_name) - Len(head) - 1) :
                     LET digits == SubSeq(asset_name, Len(head) + 2, Len(head) + 1 + k)
                     IN  /\ asset_name = head \o <<"-">> \o digits \o S_zip
                         /\ AllDigits(digits)

\* The second half of C8: the rows of names that do not match.
C8_Fallback ==
    \A i \in DOMAIN RowsOf(Result.device_groups) :
        LET r == RowsOf(Result.device_groups)[i]
            stripped == SubSeq(r.row.asset_name, Len(S_firmware) + 1,
                               Len(r.row.asset_name) - Len(S_zip))
        IN  (Result.version_label = << >>
             \/ ~C8_WholeMatch(r.row.asset_name, Result.version_label)) =>
                /\ r.row.variant_label = S_archive
                /\ r.slug = IF stripped = << >> THEN S_unknown_device ELSE stripped

\* C8 as stated: with version label V, firmware-S-V.zip is grouped under S as
\* "main" and firmware-S-V-N.zip under S as "variant N", for every slug S and
\* digit string N; names that do not match fall back.
C8_SlugAndVariant ==
    Returned =>
        /\ Result.version_label # << >> =>
              \A i \in DOMAIN RowsOf(Result.device_groups) :
                  LET r == RowsOf(Result.device_groups)[i]
                      V == Result.version_label
                  IN  \A S \in C8_Slugs :
                        /\ r.row.asset_name = FwDevice(S, V) =>
                              r.slug = S /\ r.row.variant_label = S_main
                        /\ \A N \in C8_Numbers :
                              r.row.asset_name = FwVariant(S, V, N) =>
                                  r.slug = S /\ r.row.variant_label = S_variant_ \o N
        /\ C8_Fallback

\* C8, amended: firmware-S-V.zip is always grouped under S as "main";
\* firmware-S-V-N.zip is grouped under S as "variant N" unless V-N ends with
\* -V (as when V = N), in which case the name is also the main archive
\* firmware-S'-V.zip of the longer slug S' and is grouped as that; names that
\* do not match fall back as stated.
C8_SlugAndVariantUnlessMain ==
    Returned =>
        /\ Result.version_label # << >> =>
              \A i \in DOMAIN RowsOf(Result.device_groups) :
                  LET r == RowsOf(Result.device_groups)[i]
                      V == Result.version_label
                  IN  \A S \in C8_Slugs :
                        /\ r.row.asset_name = FwDevice(S, V) =>
                              r.slug = S /\ r.row.variant_label = S_main
                        /\ \A N \in C8_Numbers :
                              (/\ r.row.asset_name = FwVariant(S, V, N)
                               /\ ~EndsWith(V \o <<"-">> \o N, <<"-">> \o V)) =>
                                  r.slug = S /\ r.row.variant_label = S_variant_ \o N
        /\ C8_Fallback

\* The main archive and a numbered variant of a device whose slug has a
\* hyphen are rows of the same device group.
C8_Witness ==
    /\ Returned
    /\ Result.version_label = V1
    /\ Len(Result.device_groups) = 1
    /\ Result.device_groups[1].slug = DevAB
    /\ LET rows == RowsOf(Result.device_groups)
       IN  /\ Len(rows) = 2
           /\ rows[1].row.asset_name = FwVariant(DevAB, V1, V2)
           /\ rows[1].row.variant_label = S_variant_ \o V2
           /\ rows[2].row.asset_name = FwDevice(DevAB, V1)
           /\ rows[2].row.variant_label = S_main

IsSpecialName(name) ==
    \/ IsFirmwareAll(name) \/ IsFirmwareBundle(name)
    \/ name \in {S_SHA256SUMS, S_FILES, S_BUILD_INFO, S_RELEASE_MATRIX}

\* firmware-*.zip that is not the aggregate zip
IsPerDeviceName(name) ==
    StartsWith(name, S_firmware) /\ EndsWith(name, S_zip) /\ ~IsFirmwareAll(name)

\* The rows made of an asset: its name and its download URL.
C9_RowCount(asset) ==
    Cardinality({i \in DOMAIN RowsOf(Result.device_groups) :
        /\ RowsOf(Result.device_groups)[i].row.asset_name = asset.name
        /\ RowsOf(Result.device_groups)[i].row.download_url = asset.browser_download_url})

\* The names a special slot takes.
C9_Named(slot_name, name) ==
    CASE slot_name = "firmware_all"         -> IsFirmwareAll(name)
      [] slot_name = "firmware_bundle"      -> IsFirmwareBundle(name)
      [] slot_name = "checksums"            -> name = S_SHA256SUMS
      [] slot_name = "files_manifest"       -> name = S_FILES
      [] slot_name = "build_info"           -> name = S_BUILD_INFO
      [] slot_name = "release_matrix_asset" -> name = S_RELEASE_MATRIX

\* A slot holds an asset of the list that has its name, or nothing when the
\* list has none.
C9_SlotHolds(slot_name) ==
    LET slot == Result[slot_name]
    IN  IF \E i \in DOMAIN Assets : C9_Named(slot_name, Assets[i].name)
        THEN Len(slot) = 1 /\ C9_Named(slot_name, slot[1].name) /\ slot[1] \in Range(Assets)
        ELSE slot = << >>

\* C9: every per-device asset makes one row, equal assets as many rows as
\* there are of them; every asset that is neither special nor per-device is in
\* other_assets as many times as in the list; no other row and no other
\* entry exists; each special slot holds an asset of its role exactly when
\* the list has one; so every asset has one role.
C9_Partition ==
    Returned =>
        LET rows == RowsOf(Result.device_groups)
        IN  /\ \A a \in Range(Assets) :
                  /\ C9_RowCount(a) = IF IsPerDeviceName(a.name) THEN Count(Assets, a) ELSE 0
                  /\ Count(Result.other_assets, a) =
                        IF IsSpecialName(a.name) \/ IsPerDeviceName(a.name) THEN 0
                        ELSE Count(Assets, a)
            /\ \A i \in DOMAIN rows :
                  \E a \in Range(Assets) :
                      /\ a.name = rows[i].row.asset_name
                      /\ a.browser_download_url = rows[i].row.download_url
            /\ Range(Result.other_assets) \subseteq Range(Assets)
            /\ \A slot_name \in SpecialRoles : C9_SlotHolds(slot_name)
            /\ Len(rows) + Len(Result.other_assets)
                 + Cardinality({i \in DOMAIN Assets : IsSpecialName(Assets[i].name)})
               = Result.assets_total

\* The aggregate zip fills its slot and makes no row; one per-device asset
\* listed twice makes two rows.
C9_Witness ==
    /\ Returned
    /\ Len(Assets) = 3
    /\ Assets[1] = Asset(FwDevice(DevA, V1), U1)
    /\ Assets[2] = Asset(FwAll(V1), U1)
    /\ Assets[3] = Assets[1]
    /\ Len(RowsOf(Result.device_groups)) = 2
    /\ Result.firmware_all = << Assets[2] >>
    /\ Result.other_assets = << >>

\* C10: devices_total is the number of device groups; sources_total is the
\* number of distinct source labels of the release, at most the sum of the
\* per-device numbers of sources, and 0 exactly when devices_total is 0.
C10_Totals ==
    Returned =>
        LET dg     == Result.device_groups
            labels == {RowsOf(dg)[i].source : i \in DOMAIN RowsOf(dg)}
        IN  /\ Result.devices_total = Len(dg)
            /\ Result.devices_total = Cardinality({dg[i].slug : i \in DOMAIN dg})
            /\ Result.sources_total = Cardinality(labels)
            /\ Result.sources_total <= SumSourceCounts(dg)
            /\ Result.sources_total = 0 <=> Result.devices_total = 0

\* Two devices share one label: two device groups, one source.
C10_Witness ==
    /\ Returned
    /\ Result.devices_total = 2
    /\ Result.sources_total = 1
    /\ SumSourceCounts(Result.device_groups) = 2

\* C13: when the firmware_all slot is filled, version_label is the version
\* embedded in the name of the asset the slot holds.
C13_LabelMatchesSlot ==
    (Returned /\ Result.firmware_all # << >>) =>
        Result.version_label = AllVersion(Result.firmware_all[1].name)

-----------------------------------------------------------------------------
(* C11: the totals of the catalog *)

\* The rows of every release of the catalog, one after the other.
C11_Rows == Flatten([i \in DOMAIN classified |-> RowsOf(classified[i].device_groups)])

\* The per-device assets of the raw releases the catalog was classified from.
C11_PerDeviceAssets ==
    Flatten([i \in DOMAIN raw_releases |->
        SelectSeq(raw_releases[i].assets, LAMBDA a : IsPerDeviceName(a.name))])

RECURSIVE C11_Sum(_, _)
C11_Sum(rels, field) ==
    IF rels = << >> THEN 0 ELSE Head(rels)[field] + C11_Sum(Tail(rels), field)

\* C11: build_stats counts the releases, the distinct device slugs, the
\* distinct source labels and the rows of the whole catalog; the device and
\* source totals are at most the sums of the per-release totals, and the row
\* total is the number of per-device assets classified.
C11_CatalogTotals ==
    stats # << >> =>
        /\ stats[1].releases_total = Len(classified)
        /\ stats[1].devices_total = Cardinality({r.slug : r \in Range(C11_Rows)})
        /\ stats[1].sources_total = Cardinality({r.source : r \in Range(C11_Rows)})
        /\ stats[1].variants_total = Len(C11_Rows)
        /\ stats[1].devices_total <= C11_Sum(classified, "devices_total")
        /\ stats[1].sources_total <= C11_Sum(classified, "sources_total")
        /\ stats[1].variants_total = Len(C11_PerDeviceAssets)

\* Totals of a catalog of two releases that share a device and have a source
\* each: two devices counted where the releases count three.
C11_Witness ==
    /\ stats # << >>
    /\ stats[1].releases_total = 2
    /\ stats[1].devices_total = 2
    /\ C11_Sum(classified, "devices_total") = 3
    /\ stats[1].sources_total = 2
    /\ stats[1].variants_total = 4

-----------------------------------------------------------------------------
(* C12: the filter of the page *)

\* The latest query: the value of the field, trimmed and in lower case.
C12_Query == lower(Strip(search_value))

\* q occurs in s.
C12_Contains(s, q) ==
    \E k \in 1..(Len(s) + 1) :
        \A n \in 1..Len(q) : k + n - 1 <= Len(s) /\ s[k + n - 1] = q[n]

\* The search blob of release i, as classify_release made it.
C12_ReleaseBlob(i) == classified[i].search_blob

\* The search blob of device card d of release i: the slug, the source
\* labels and the asset names, in lower case, separated by blanks.
C12_DeviceBlob(i, d) == JoinSpace(DeviceCardTokens(classified[i].device_groups[d]))

C12_ReleaseVisible(i) == release_display[i] = ""
C12_DeviceVisible(i, d) == device_display[i][d] = ""

C12_VisibleDevices ==
    UNION {{<<i, d>> : d \in {x \in DOMAIN device_display[i] : C12_DeviceVisible(i, x)}} :
            i \in DOMAIN device_display}

\* The claim's conditions on the cards and the status line, for the query the
\* field holds.
C12_QueryDecides ==
    /\ DOMAIN release_display = DOMAIN classified
    /\ DOMAIN device_display = DOMAIN classified
    /\ \A i \in DOMAIN classified :
         /\ DOMAIN device_display[i] = DOMAIN classified[i].device_groups
         /\ C12_ReleaseVisible(i) <=>
              \/ C12_Query = << >>
              \/ C12_Contains(C12_ReleaseBlob(i), C12_Query)
              \/ \E d \in DOMAIN classified[i].device_groups :
                    C12_Contains(C12_DeviceBlob(i, d), C12_Query)
         /\ \A d \in DOMAIN classified[i].device_groups :
              C12_DeviceVisible(i, d) <=>
                 \/ C12_Query = << >>
                 \/ C12_Contains(C12_ReleaseBlob(i), C12_Query)
                 \/ C12_Contains(C12_DeviceBlob(i, d), C12_Query)
    /\ C12_Query # << >> =>
         status = << "Matched releases: ",
                     Cardinality({i \in DOMAIN release_display : C12_ReleaseVisible(i)}),
                     ", matched devices: ",
                     Cardinality(C12_VisibleDevices), "." >>

\* C12: after any sequence of query inputs, a release card is visible iff
\* the latest query (the field's value, trimmed and in lower case) is empty,
\* or in the release's blob, or in the blob of one of its device cards; a
\* device card is visible iff the query is empty, or in its release's blob,
\* or in its own; every card is visible for the empty query, and for a query
\* that is not empty the status line has the numbers of visible release and
\* device cards.
C12_OnceFiltered == pc = "page_filtered" => C12_QueryDecides

\* A query only one device card has (it runs over two asset names), typed
\* into the page of two releases: that card and its release are shown, the
\* release's other device card and the other release are hidden, and the
\* status line counts one and one.
C12_Witness ==
    /\ pc = "page_filtered"
    /\ C12_Query = <<"z","i","p"," ","f","i","r","m","w","a","r","e">>
    /\ release_display = << "", "none" >>
    /\ device_display = << << "", "none" >>, << "none" >> >>
    /\ status = << "Matched releases: ", 1, ", matched devices: ", 1, "." >>

\* Outside C12: before the first query input every card is shown and the
\* status line has the text of the document, whatever the field holds.
UnfilteredAtLoad ==
    pc = "page_loaded" =>
        /\ \A i \in DOMAIN release_display : C12_ReleaseVisible(i)
        /\ \A i \in DOMAIN device_display :
              \A d \in DOMAIN device_display[i] : C12_DeviceVisible(i, d)
        /\ status = S_Showing_all

====
